---- MODULE Spec2Model ----
(***************************************************************************)
(* Flow-layout engine of clickpost (src/clickpost/letter.py, class PDF).   *)
(*                                                                         *)
(* The model follows one PDF instance.  create_pdf installs the template   *)
(* margins, opens the first page and runs the dispatcher _add_content over *)
(* the content blocks; a block placement that raises aborts create_pdf.    *)
(* The instance outlives create_pdf, and its placement methods are public, *)
(* so after create_pdf has returned or raised the caller may invoke them   *)
(* directly (with blocks of either block module of the repository).        *)
(*                                                                         *)
(* Lengths are integers in one abstract unit.  The canvas (fpdf.FPDF) is   *)
(* modelled by what its primitives do to margins and cursor; text height   *)
(* is the number of lines a greedy word wrap needs at the available width. *)
(* Python exceptions raised by the engine's own statements are modelled    *)
(* as the call ending with `err` set and the assignments made so far kept. *)
(***************************************************************************)
EXTENDS Integers, Sequences, FiniteSets, TLC

VARIABLES
    pc,            \* "new" | "dispatch" | "done" | "aborted"
    template,      \* the Template passed to PDF.__init__ (its margins)
    l_margin, t_margin, r_margin,   \* canvas margins (FPDF.l_margin, ...)
    x, y,          \* canvas cursor (FPDF.get_x(), FPDF.get_y())
    page,          \* number of pages opened
    wrap_on,       \* PDF.wrap_on
    wrap_y_end,    \* PDF.wrap_y_end : None or Some(v)
    wrap_x,        \* PDF.wrap_x     : None or Some(v)
    wrap_dir,      \* PDF.wrap_dir   : None or Some("L"|"R")
    loaded_fonts,  \* PDF.loaded_fonts (list of family names), a class attribute
    font_name,     \* font_name attribute of the caller's custom Font object
    fonts,         \* families registered with this instance's canvas (FPDF.fonts)
    other,         \* a second PDF instance: its canvas's families, the
                   \* font_name of its own Font object, its last exception
    err,           \* exception raised by the last call, "none" if it returned
    last           \* what the last call was and what it did (observation)

vars == <<pc, template, l_margin, t_margin, r_margin, x, y, page, wrap_on,
          wrap_y_end, wrap_x, wrap_dir, loaded_fonts, font_name, fonts, other,
          err, last>>

----------------------------------------------------------------------------
(* Bounds of the model *)

MaxY == 4          \* the cursor stays on the first page: 0 <= y <= MaxY
PageW == 4         \* page width
MaxMargin == 2     \* the template's first margin ranges over 1..MaxMargin
MaxWords == 3      \* words per text block
MaxWordLen == 1    \* characters per word
MaxFloat == 2      \* float height ranges over 1..MaxFloat
MaxPad == 1        \* line padding ranges over 0..MaxPad
MaxPostcode == 6   \* characters of a postcode as typed

(* Python's None and a present value *)
None == <<>>
Some(v) == <<v>>

----------------------------------------------------------------------------
(* Inputs *)

\* Template.margins: block_models.Margins (a dataclass, not iterable) or the
\* 4-tuple of dataclasses.Template, documented as (top, right, bottom, left).
Templates ==
    [kind : {"Margins", "tuple"},
     top : 1..MaxMargin, right : {1}, bottom : {1}, left : {1}]

\* text.text.split(" "): a non-empty list of words, each given by its
\* length.  str.split(" ") cuts at every single space, so a text with two
\* adjacent spaces yields an empty word (length 0) between them; the texts
\* here neither begin nor end with a space.  " ".join puts one space
\* between any two words of the list, empty or not.
Texts ==
    UNION { { w \in [1..n -> 0..MaxWordLen] : w[1] > 0 /\ w[n] > 0 } :
            n \in 1..MaxWords }

\* A text block.  module = "bm": block_models.TextBlock (alignment is an
\* Align enum, has get_boarder); module = "dc": dataclasses.TextBlock
\* (alignment is a str, no get_boarder).  fixed: a FixedTextBlock.
TextBlocks ==
    { t \in [module : {"bm", "dc"}, fixed : BOOLEAN, words : Texts,
             ignore_wrap : BOOLEAN, font : {"none", "custom"}] :
        t.fixed => t.module = "bm" }

\* A float block (ImageBlock / QrBlock).  align_str: alignment is the str
\* "L"/"R"/"C" (dataclasses module) rather than an Align enum member.
\* size = <<width, height>>.
FloatSizes == {1} \X (1..MaxFloat)

FloatBlocks ==
    [kind : {"block"}, size : FloatSizes,
     wrap_text : BOOLEAN, alignment : {"L", "R", "C"}, align_str : BOOLEAN]

\* The bitmap produced by the QR encoder: it has a size and nothing else.
Bitmaps ==
    [kind : {"bitmap"}, size : {<<1, MaxFloat>>},
     wrap_text : {FALSE}, alignment : {"C"}, align_str : {FALSE}]

\* Is the float meant to wrap (wrap_text set and Left/Right aligned)?
WrapEnabled(obj) == obj.kind = "block" /\ obj.wrap_text /\ obj.alignment \in {"L", "R"}

\* A QR block: insert_qrcode passes qr_code.size itself as width and height
\* (size_tuple tells whether it is a pair or a single number).
QrBlocks ==
    [alignment : {"L", "R", "C"}, align_str : BOOLEAN, wrap_text : BOOLEAN,
     size_tuple : BOOLEAN]

LineBlocks == [height : 0..1, padding : (0..MaxPad) \cup {0 - 1}]

LineBreakHeights == {0 - 1, 1}        \* a non-zero LineBreakBlock.height

----------------------------------------------------------------------------
(* The mutable state of one PDF instance, as a record the methods transform *)

Cur ==
    [l_margin |-> l_margin, t_margin |-> t_margin, r_margin |-> r_margin,
     x |-> x, y |-> y,
     wrap_on |-> wrap_on, wrap_y_end |-> wrap_y_end, wrap_x |-> wrap_x,
     wrap_dir |-> wrap_dir,
     loaded_fonts |-> loaded_fonts, font_name |-> font_name, fonts |-> fonts,
     err |-> "none", events |-> <<>>, path |-> "", hit |-> FALSE,
     ys |-> <<y>>]

Raise(s, e) == [s EXCEPT !.err = e]

Event(kind, words, width, ok) ==
    [ev |-> kind, words |-> words, width |-> width, ok |-> ok]

Log(s, e) == [s EXCEPT !.events = Append(@, e)]

----------------------------------------------------------------------------
(* Canvas port: fpdf.FPDF primitives the engine calls *)

\* FPDF.set_margins(left, top, right): set_left_margin moves the cursor
\* with the margin when it sits on the old margin or left of the new one.
SetMargins(s, left, top, right) ==
    [s EXCEPT !.x = IF s.x < left \/ s.x = s.l_margin THEN left ELSE s.x,
              !.l_margin = left, !.t_margin = top, !.r_margin = right]

\* FPDF.ln(h): back to the left margin, down by h.
Ln(s, h) == [s EXCEPT !.x = s.l_margin, !.y = s.y + h, !.ys = Append(@, s.y + h)]

\* FPDF.set_y(y): sets y and moves x back to the left margin.
SetY(s, newy) == [s EXCEPT !.x = s.l_margin, !.y = newy, !.ys = Append(@, newy)]

\* Width available to multi_cell(w=0, ...): from the cursor to the right margin.
AvailWidth(s) == PageW - s.r_margin - s.x

\* FPDF.epw, the width between the current margins (the width of a table
\* that is given no width of its own).
EffectivePageWidth(s) == PageW - s.r_margin - s.l_margin

\* Number of lines a greedy word wrap of `words` needs at width W; a word
\* longer than W still takes a line of its own, and an empty text still
\* produces one (empty) line.
RECURSIVE LinesFrom(_, _, _, _, _)
LinesFrom(words, i, cur, started, W) ==
    IF i > Len(words) THEN 1
    ELSE LET n == words[i] IN
         IF ~started THEN LinesFrom(words, i + 1, n, TRUE, W)
         ELSE IF cur + 1 + n <= W THEN LinesFrom(words, i + 1, cur + 1 + n, TRUE, W)
         ELSE 1 + LinesFrom(words, i + 1, n, TRUE, W)

\* TextBlock.line_height (max_line_height of every multi_cell call)
LineHeight == 1

\* multi_cell(..., dry_run=True, output=MethodReturnValue.HEIGHT)
MeasureHeight(s, words) == LineHeight * LinesFrom(words, 1, 0, FALSE, AvailWidth(s))

\* multi_cell(0, 0, txt, ..., dry_run=dry, new_x=XPos.LMARGIN, new_y=YPos.NEXT):
\* a dry run changes nothing; a real call draws and moves the cursor to the
\* left margin below the text.
MultiCell(s, words, dry) ==
    LET s1 == Log(s, Event("draw", words, AvailWidth(s), ~dry))
    IN  IF dry THEN s1
        ELSE [s1 EXCEPT !.x = s.l_margin, !.y = s.y + MeasureHeight(s, words),
                        !.ys = Append(@, s.y + MeasureHeight(s, words))]

----------------------------------------------------------------------------
(* Engine: the methods of class PDF *)

\* Template.margins as create_pdf unpacks it (dataclasses.Template: a tuple
\* in the order top, right, bottom, left).
TemplateTuple(t) == <<t.top, t.right, t.bottom, t.left>>

\* create_pdf: margin_l, margin_r, margin_b, margin_t = self.template.margins
\* then set_margins(margin_l, margin_t, margin_r): what the canvas receives.
InstalledMargins(t) ==
    LET m == TemplateTuple(t)
    IN  [left |-> m[1], top |-> m[4], right |-> m[2], bottom |-> m[3]]

\* PDF.__init__: self.original_margins = [self.template.margins]
OriginalMargins(t) == << t >>

\* Python: a, b, c, d = seq  succeeds only for a sequence of exactly 4 items.
CanUnpack4(seq) == Len(seq) = 4

\* PDF._reset_margin
ResetMargin(s) ==
    LET om == OriginalMargins(template)
    IN  IF ~CanUnpack4(om)
        THEN Raise(Log(s, Event("reset", <<>>, 0, FALSE)), "ValueError")
        ELSE LET s1 == SetMargins(s, om[1], om[2], om[3])
             IN  Log([s1 EXCEPT !.wrap_y_end = None, !.wrap_x = None,
                                !.wrap_on = FALSE],
                     Event("reset", <<>>, 0, TRUE))

WrapCondition_IgnoresWrapText(obj) == obj.align_str /\ obj.alignment \in {"L", "R"}

\* _sort_wrap: obj.wrap_text and obj.alignment in ["L", "R"]
\* (an Align enum member is never equal to a str).
WrapCondition(obj) ==
    obj.wrap_text /\ obj.align_str /\ obj.alignment \in {"L", "R"}

\* A variant of _sort_wrap that narrows the canvas's current margins.
SortWrap_Stacking(s, obj) ==
    LET s1 == [s EXCEPT !.wrap_y_end = Some(s.y + obj.size[2]),
                        !.wrap_x = Some(s.x + obj.size[1])]
    IN  IF obj.kind = "bitmap" THEN Raise(s1, "AttributeError")
        ELSE IF WrapCondition(obj)
        THEN LET s2 == [s1 EXCEPT !.wrap_on = TRUE]
             IN  IF obj.alignment = "L"
                 THEN SetMargins([s2 EXCEPT !.wrap_dir = Some("L")],
                                 s.l_margin + obj.size[1], s.t_margin, s.r_margin)
                 ELSE SetMargins([s2 EXCEPT !.wrap_dir = Some("R")],
                                 s.l_margin, s.t_margin, s.r_margin - obj.size[1])
        ELSE s1

\* PDF._sort_wrap(obj)
SortWrap(s, obj) ==
    LET s1 == [s EXCEPT !.wrap_y_end = Some(s.y + obj.size[2]),
                        !.wrap_x = Some(s.x + obj.size[1])]
    IN  IF obj.kind = "bitmap"
        THEN Raise(s1, "AttributeError")          \* obj.wrap_text on the bitmap
        ELSE IF WrapCondition(obj)
        THEN LET s2 == [s1 EXCEPT !.wrap_on = TRUE]
                 om == OriginalMargins(template)
             IN  IF ~CanUnpack4(om)
                 THEN Raise(s2, "ValueError")     \* l, r, t, _ = original_margins
                 ELSE IF obj.alignment = "L"
                 THEN \* l_margin + obj.size : int + tuple
                      Raise([s2 EXCEPT !.wrap_dir = Some("L")], "TypeError")
                 ELSE SetMargins([s2 EXCEPT !.wrap_dir = Some("R")],
                                 om[1], om[3], om[2] - obj.size[1])
        ELSE s1

\* PDF.insert_qrcode(qr_code); img is what qr.make(fit=True) handed back
\* ("bitmap": an image with a size, "None": nothing).
InsertQrcode(s, qr, img) ==
    IF ~qr.align_str
    THEN Raise(s, "UnboundLocalError")       \* no branch assigns x
    ELSE IF qr.alignment \in {"R", "C"} /\ qr.size_tuple
    THEN Raise(s, "TypeError")               \* number - tuple
    ELSE IF img = None \/ qr.size_tuple
    THEN Raise(s, "CanvasError")             \* self.image(...) cannot draw it
    ELSE SortWrap(Log(s, Event("image", <<>>, 0, TRUE)), img[1])

\* PDF.insert_image(img): the body is `pass`.
InsertImage(s, img) == s

\* PDF._font_needs_load / PDF._set_font for font = None (the template's
\* default font, a FontName) or the caller's custom Font object, whose
\* font_name is a Path ("Path") or, once rewritten, the family name
\* ("stem").  A font not yet in loaded_fonts is registered with the canvas
\* (add_font), the Font object's font_name is overwritten and the family is
\* appended to loaded_fonts.  Otherwise font.font_name goes to
\* set_font(family=...) as it is: the canvas rejects a Path and a family it
\* has not registered.
SetFont(s, font) ==
    IF font # "custom" THEN s
    ELSE IF s.font_name = "Path"
            /\ \A i \in 1..Len(s.loaded_fonts) : s.loaded_fonts[i] # "stem"
    THEN [s EXCEPT !.fonts = @ \cup {"stem"},
                   !.font_name = "stem",
                   !.loaded_fonts = Append(@, "stem")]
    ELSE IF s.font_name = "Path"
    THEN Raise([s EXCEPT !.path = "font"], "AttributeError")
    ELSE IF s.font_name \notin s.fonts
    THEN Raise([s EXCEPT !.path = "font"], "FPDFException")
    ELSE s

\* insert_wrapped line 302: if x + out > self.wrap_y_end
HitEndY(xpos, out, yend) == xpos + out > yend

\* The loop of insert_wrapped: 1-based position of the first word whose
\* candidate (words[1..k] joined) exceeds, 0 when the loop ends without break.
FirstExceed(s, words) ==
    LET over == { k \in 1..Len(words) :
                    HitEndY(s.x, MeasureHeight(s, SubSeq(words, 1, k)),
                            s.wrap_y_end[1]) }
    IN  IF over = {} THEN 0 ELSE CHOOSE k \in over : \A j \in over : k <= j

\* The dry-run measurements the loop made, in order.
Measurements(s, words, k) ==
    [ j \in 1..(IF k = 0 THEN Len(words) ELSE k) |->
        Event("measure", SubSeq(words, 1, j), AvailWidth(s), j # k) ]

\* A variant of insert_wrapped that always ends the wrap.
InsertWrapped_ClearsWrap(s, text, dry) ==
    LET s0 == [s EXCEPT !.path = "wrap"]
    IN  IF text.module = "bm" THEN Raise(s0, "TypeError")
        ELSE IF s0.wrap_y_end = None THEN Raise(s0, "TypeError")
        ELSE LET k == FirstExceed(s0, text.words)
                 s1 == [s0 EXCEPT !.events = @ \o Measurements(s0, text.words, k),
                                  !.hit = (k # 0)]
                 s2 == MultiCell(s1, SubSeq(text.words, 1, IF k = 0 THEN Len(text.words) ELSE k - 1), dry)
             IN  [s2 EXCEPT !.wrap_on = FALSE]

\* PDF.insert_wrapped(text, dry)
InsertWrapped(s, text, dry) ==
    LET s0 == [s EXCEPT !.path = "wrap"]
        words == text.words
    IN  IF text.module = "bm"
        THEN Raise(s0, "TypeError")       \* getattr(Align, <enum member>)
        ELSE IF s0.wrap_y_end = None
        THEN Raise(s0, "TypeError")       \* number > None
        ELSE LET k == FirstExceed(s0, words)
                 fitted == SubSeq(words, 1, IF k = 0 THEN Len(words) ELSE k - 1)
                 s1 == [s0 EXCEPT !.events = @ \o Measurements(s0, words, k),
                                  !.hit = (k # 0)]
                 s2 == MultiCell(s1, fitted, dry)
             IN  IF k = 0 THEN s2
                 ELSE LET s3 == ResetMargin(s2)
                      IN  IF s3.err # "none" THEN s3
                          ELSE MultiCell(s3, SubSeq(words, k, Len(words)), dry)

\* The two full-width multi_cell calls of insert_text (lines 255 and 261):
\* their arguments need text.get_boarder() and text.alignment.value.
FullWidthCell(s, text, dry) ==
    IF text.module = "dc" THEN Raise(s, "AttributeError")
    ELSE MultiCell(s, text.words, dry)

\* PDF.insert_text(text, dry)
InsertText(s, text, dry) ==
    LET s1 == SetFont(s, text.font)
    IN  IF s1.err # "none" THEN s1
        ELSE IF s1.wrap_on /\ ~text.ignore_wrap
        THEN InsertWrapped(s1, text, dry)
        ELSE LET s2 == [s1 EXCEPT !.path = "full"]
             IN  IF text.fixed THEN FullWidthCell(s2, text, dry)
                 ELSE LET s3 == IF s2.wrap_on THEN ResetMargin(s2) ELSE s2
                      IN  IF s3.err # "none" THEN s3
                          ELSE FullWidthCell(s3, text, dry)

\* PDF.insert_line_break(line_break) for a non-zero height
InsertLineBreak(s, h) == Ln(s, h)

\* range(n) of Python: nothing for n <= 0
Strokes(y0, n) == [ i \in 1..n |-> Event("line", <<>>, y0 + i - 1, TRUE) ]

\* PDF.insert_line(line)
InsertLine(s, line) ==
    LET y0 == s.y
        s1 == IF line.padding # 0 THEN Ln(s, line.padding) ELSE s
        s2 == [s1 EXCEPT !.events = @ \o Strokes(y0, line.height)]
        s3 == IF line.padding # 0 THEN Ln(s2, line.padding) ELSE s2
    IN  SetY(s3, y0 + line.height)

\* sum(self.col_widths), in tenths
RECURSIVE SumOf(_)
SumOf(seq) == IF seq = <<>> THEN 0 ELSE Head(seq) + SumOf(Tail(seq))

\* TableBlock.check_alignment: raises when alignment is an Align member.
CheckAlignment(tbl) == IF tbl.align_enum THEN "AlignmentError" ELSE "none"

\* TableBlock.check_widths: col_widths in tenths, so "sums to 1" is 10.
CheckWidths(tbl) ==
    IF tbl.col_widths = None THEN "none"
    ELSE IF SumOf(tbl.col_widths[1]) # 10 THEN "ColumnWidthError"
    ELSE IF Len(tbl.col_widths[1]) = tbl.ncols THEN "ColumnTotalError"
    ELSE "none"

\* TableBlock.__post_init__ / validate_fields: the exception the
\* construction of the block raises, "none" when the block is built.
NewTableBlock(tbl) ==
    IF CheckAlignment(tbl) # "none" THEN CheckAlignment(tbl) ELSE CheckWidths(tbl)

\* A variant of insert_table that ends an active wrap.
InsertTable_EndsWrap(s, tbl) ==
    LET s1 == SetFont(s, tbl.font)
    IN  IF s1.err # "none" THEN s1
        ELSE IF tbl.col_widths # None /\ Len(tbl.col_widths[1]) < tbl.ncols
        THEN Raise(s1, "ValueError")
        ELSE Ln(Log([s1 EXCEPT !.wrap_on = FALSE],
                    Event("table", <<>>, EffectivePageWidth(s1), TRUE)), tbl.rows)

\* PDF.insert_table(table): sets the table's font and streams the rows to
\* the canvas's table primitive, which lays them out between the current
\* margins, one line of height per row; the primitive raises when it is
\* given fewer column widths than the rows have cells.
InsertTable(s, tbl) ==
    LET s1 == SetFont(s, tbl.font)
    IN  IF s1.err # "none" THEN s1
        ELSE IF tbl.col_widths # None /\ Len(tbl.col_widths[1]) < tbl.ncols
        THEN Raise(s1, "ValueError")
        ELSE Ln(Log(s1, Event("table", <<>>, EffectivePageWidth(s1), TRUE)), tbl.rows)

\* PDF.insert_box(box): the body holds comments only.
InsertBox(s, box) == s

----------------------------------------------------------------------------
(* The state machine *)

\* What is recorded of a call: which method (op), who called it (via), its
\* arguments (dry; for a text: words, ignore_wrap; for a float: size and
\* whether it is wrap-enabled), whether a wrap was on when it began, and
\* what it did (path taken, boundary hit, canvas calls in order).
Call(op, via, dry) ==
    [op |-> op, via |-> via, dry |-> dry, float |-> FALSE, wraps |-> FALSE,
     size |-> None, words |-> <<>>, ignore_wrap |-> FALSE, arg |-> None,
     ret |-> "None"]

\* A call with one more argument worth recording (a line's height and
\* padding, a table's column widths and column count, create_pdf's output).
ArgCall(op, via, dry, arg) == [Call(op, via, dry) EXCEPT !.arg = arg]

FloatCall(op, via, dry, size, wraps) ==
    [Call(op, via, dry) EXCEPT !.float = TRUE, !.wraps = wraps, !.size = size]

TextCall(via, dry, t) ==
    [Call("text", via, dry) EXCEPT !.words = t.words, !.ignore_wrap = t.ignore_wrap]

Observed(c, wrap_before, path, hit, events, ys) ==
    [op |-> c.op, via |-> c.via, dry |-> c.dry, float |-> c.float,
     wraps |-> c.wraps, size |-> c.size, words |-> c.words,
     ignore_wrap |-> c.ignore_wrap, arg |-> c.arg, ret |-> c.ret,
     wrap_before |-> wrap_before,
     path |-> path, hit |-> hit, events |-> events, ys |-> ys]

NoCall(op, via) == Observed(Call(op, via, FALSE), FALSE, "", FALSE, <<>>, <<>>)

\* The arguments a TableBlock is built from: col_widths (None or fractions
\* in tenths), the number of columns of data[0], whether alignment is an
\* Align member (the default) or something else.
TableBlocks ==
    [rows : {1}, font : {"none", "custom"}, ncols : {2},
     col_widths : {None, Some(<<5, 5>>), Some(<<5, 6>>), Some(<<10>>)},
     align_enum : BOOLEAN]

\* A FixedBox: its own position and size.
Boxes == [x : {1}, y : {1}, width : {1}, height : {1}]

\* The output argument of create_pdf: a path, or a bytearray (empty or not).
Outputs == {"str", "bytearray()", "bytearray"}

\* State after PDF(template): nothing installed yet, no page, class-level
\* defaults for the wrap fields; the canvas holds its built-in margins.
Init ==
    /\ pc = "new"
    /\ template \in Templates
    /\ l_margin = 1 /\ t_margin = 1 /\ r_margin = 1
    /\ x = 1 /\ y = 1
    /\ page = 0
    /\ wrap_on = FALSE
    /\ wrap_y_end = None /\ wrap_x = None /\ wrap_dir = None
    /\ loaded_fonts = <<>>
    /\ font_name = "Path"
    /\ fonts = {}
    /\ other = [fonts |-> {}, font_name |-> "Path", err |-> "none"]
    /\ err = "none"
    /\ last = NoCall("init", "")

\* Who calls a placement method: the dispatcher inside create_pdf, or the
\* owner of the instance once create_pdf has returned or raised.
CanCall(via) ==
    \/ via = "dispatch" /\ pc = "dispatch"
    \/ via = "direct" /\ pc \in {"done", "aborted"} /\ page >= 1

\* The call ends in state s: store it; an exception inside create_pdf
\* propagates out of it.
Finish(s, c) ==
    /\ s.y \in 0..MaxY
    /\ l_margin' = s.l_margin /\ t_margin' = s.t_margin /\ r_margin' = s.r_margin
    /\ x' = s.x /\ y' = s.y
    /\ wrap_on' = s.wrap_on /\ wrap_y_end' = s.wrap_y_end
    /\ wrap_x' = s.wrap_x /\ wrap_dir' = s.wrap_dir
    /\ loaded_fonts' = s.loaded_fonts /\ font_name' = s.font_name
    /\ fonts' = s.fonts
    /\ err' = s.err
    /\ last' = Observed(c, wrap_on, s.path, s.hit, s.events, s.ys)
    /\ pc' = IF c.via = "dispatch" /\ s.err # "none" THEN "aborted" ELSE pc
    /\ UNCHANGED <<template, page, other>>

\* create_pdf up to the call of _add_content (lines 490-501)
CreatePdf ==
    /\ pc = "new"
    /\ IF template.kind = "Margins"
       THEN \* a, b, c, d = <Margins object>: not iterable
            /\ pc' = "aborted"
            /\ err' = "TypeError"
            /\ UNCHANGED <<l_margin, t_margin, r_margin, x, y, page>>
       ELSE LET m == InstalledMargins(template)
                s == SetMargins(Cur, m.left, m.top, m.right)
            IN  /\ pc' = "dispatch"
                /\ err' = "none"
                /\ l_margin' = s.l_margin /\ t_margin' = s.t_margin
                /\ r_margin' = s.r_margin
                /\ page' = 1                          \* add_page()
                /\ x' = s.l_margin /\ y' = s.t_margin
    /\ last' = NoCall("create_pdf", "direct")
    /\ UNCHANGED <<template, wrap_on, wrap_y_end, wrap_x, wrap_dir,
                   loaded_fonts, font_name, fonts, other>>

\* FPDF.output(name): a str is a path to write to; for a false name (an
\* empty bytearray) the buffer is handed back; anything else is taken for
\* a file object and asked to write(), which a bytearray cannot.
CanvasOutput(output) ==
    IF output = "str" THEN [err |-> "none", ret |-> "None"]
    ELSE IF output = "bytearray()" THEN [err |-> "none", ret |-> "bytes"]
    ELSE [err |-> "AttributeError", ret |-> "None"]

\* create_pdf: _add_content has run out of blocks; self.output(output) is
\* called and its value dropped: create_pdf has no return statement.
Output ==
    \E output \in Outputs :
        LET r == CanvasOutput(output)
            c == ArgCall("output", "dispatch", FALSE, Some(output))
        IN  /\ pc = "dispatch"
            /\ pc' = IF r.err = "none" THEN "done" ELSE "aborted"
            /\ err' = r.err
            /\ last' = Observed(c, FALSE, "", FALSE, <<>>, <<>>)
            /\ UNCHANGED <<template, l_margin, t_margin, r_margin, x, y, page,
                           wrap_on, wrap_y_end, wrap_x, wrap_dir, loaded_fonts,
                           font_name, fonts, other>>

\* _add_content(content) is called without dry, so dry = True (line 452).
\* The isinstance tests accept block_models instances only.
PlaceText ==
    \E via \in {"dispatch", "direct"}, t \in TextBlocks, dry \in BOOLEAN :
        /\ CanCall(via)
        /\ via = "dispatch" => (dry /\ t.module = "bm")
        /\ Finish(InsertText(Cur, t, dry), TextCall(via, dry, t))

PlaceImage ==
    \E via \in {"dispatch", "direct"}, img \in FloatBlocks :
        /\ CanCall(via)
        /\ via = "dispatch" => ~img.align_str
        /\ Finish(InsertImage(Cur, img),
                  FloatCall("image", via, via = "dispatch", img.size, WrapEnabled(img)))

PlaceQrcode ==
    \E via \in {"dispatch", "direct"}, qr \in QrBlocks,
       img \in {None} \cup {Some(b) : b \in Bitmaps} :
        /\ CanCall(via)
        /\ via = "dispatch" => ~qr.size_tuple
        /\ Finish(InsertQrcode(Cur, qr, img),
                  FloatCall("qrcode", via, via = "dispatch", None,
                            qr.wrap_text /\ qr.alignment \in {"L", "R"}))

PlaceLine ==
    \E via \in {"dispatch", "direct"}, line \in LineBlocks :
        /\ CanCall(via)
        /\ via = "dispatch" => (line.height <= 0 /\ line.padding < 0)
        /\ Finish(InsertLine(Cur, line),
                  ArgCall("line", via, via = "dispatch",
                          Some(<<line.height, line.padding>>)))

PlaceLineBreak ==
    \E via \in {"dispatch", "direct"}, h \in LineBreakHeights :
        /\ CanCall(via)
        /\ via = "dispatch" => h <= 0
        /\ Finish(InsertLineBreak(Cur, h), Call("line_break", via, via = "dispatch"))

\* insert_table(TableBlock(...)): the block is built, then placed.  The
\* blocks the dispatcher meets were built before create_pdf was called.
PlaceTable ==
    \E via \in {"dispatch", "direct"}, tbl \in TableBlocks :
        /\ CanCall(via)
        /\ via = "dispatch" => NewTableBlock(tbl) = "none"
        /\ Finish(IF NewTableBlock(tbl) # "none"
                  THEN Raise(Cur, NewTableBlock(tbl))
                  ELSE InsertTable(Cur, tbl),
                  ArgCall("table", via, via = "dispatch",
                          Some(<<tbl.col_widths, tbl.ncols, tbl.align_enum>>)))

\* A FixedBox: _add_content has no branch for it; insert_box called directly.
PlaceBox ==
    \E via \in {"dispatch", "direct"}, box \in Boxes :
        /\ CanCall(via)
        /\ Finish(IF via = "dispatch" THEN Cur ELSE InsertBox(Cur, box),
                  ArgCall("box", via, via = "dispatch", Some(box)))

\* _add_content meets a block none of its isinstance tests accepts.
SkipBlock ==
    /\ CanCall("dispatch")
    /\ Finish(Cur, Call("other", "dispatch", TRUE))

\* pdf._sort_wrap(block) called with a float block
CallSortWrap ==
    \E obj \in FloatBlocks :
        /\ CanCall("direct")
        /\ Finish(SortWrap(Cur, obj),
                  FloatCall("sort_wrap", "direct", FALSE, obj.size, WrapEnabled(obj)))

\* pdf._reset_margin()
CallResetMargin ==
    /\ CanCall("direct")
    /\ Finish(ResetMargin(Cur), Call("reset_margin", "direct", FALSE))

\* A second PDF instance, rendering another document, sets the font of one
\* of its blocks: its own Font object (same font file), its own canvas, and
\* the loaded_fonts list of the class.
OtherSetFont ==
    LET s == SetFont([Cur EXCEPT !.fonts = other.fonts,
                                 !.font_name = other.font_name], "custom")
    IN  /\ other' = [fonts |-> s.fonts, font_name |-> s.font_name, err |-> s.err]
        /\ (other' # other \/ loaded_fonts # s.loaded_fonts)
        /\ loaded_fonts' = s.loaded_fonts
        /\ UNCHANGED <<pc, template, l_margin, t_margin, r_margin, x, y, page,
                       wrap_on, wrap_y_end, wrap_x, wrap_dir, font_name, fonts,
                       err, last>>

Next ==
    \/ CreatePdf
    \/ Output
    \/ PlaceText
    \/ PlaceImage
    \/ PlaceQrcode
    \/ PlaceLine
    \/ PlaceLineBreak
    \/ PlaceTable
    \/ PlaceBox
    \/ SkipBlock
    \/ CallSortWrap
    \/ CallResetMargin

Spec == Init /\ [][Next]_vars

\* Two documents rendered by two PDF instances of one process, their steps
\* interleaved in any order: the first instance's create_pdf and the
\* placements that select a font, the second instance's font selection.
NextTwo ==
    \/ CreatePdf
    \/ Output
    \/ PlaceText
    \/ PlaceTable
    \/ OtherSetFont

SpecTwo == Init /\ [][NextTwo]_vars

----------------------------------------------------------------------------
(* Font selections on one instance, with a second Font object *)

\* pdf._set_font(font2): the instance selects a second Font object that
\* names the same font file as the first (its font_name is other.font_name).
SelectSecondFont ==
    LET s == SetFont([Cur EXCEPT !.font_name = other.font_name], "custom")
    IN  /\ CanCall("direct")
        /\ other' = [other EXCEPT !.font_name = s.font_name]
        /\ fonts' = s.fonts
        /\ loaded_fonts' = s.loaded_fonts
        /\ err' = s.err
        /\ last' = Observed(Call("set_font", "direct", FALSE), wrap_on, s.path,
                            FALSE, <<>>, <<>>)
        /\ UNCHANGED <<pc, template, l_margin, t_margin, r_margin, x, y, page,
                       wrap_on, wrap_y_end, wrap_x, wrap_dir, font_name>>

NextFonts ==
    \/ CreatePdf
    \/ Output
    \/ PlaceText
    \/ PlaceTable
    \/ SelectSecondFont

SpecFonts == Init /\ [][NextFonts]_vars

----------------------------------------------------------------------------
(* Building blocks (block_models.py): the caller constructs the objects *)

\* Arguments of Font(...): font_name and font_style by type, font_colour by
\* type and length, font_spacing by type.
FontArgs ==
    [font_size : {0, 11, 101},
     font_name : {"FontName", "Path", "str", "bytes"},
     font_style : {"FontStyle", "list", "str"},
     colour_tuple : BOOLEAN, colour_len : {3, 4},
     font_spacing : {"int", "float"}]

\* Font.check_path: a str font_name becomes a Path
CheckPath(f) == IF f.font_name = "str" THEN [f EXCEPT !.font_name = "Path"] ELSE f

\* Font.validate_fields: the exception it raises, "none" if it returns
ValidateFont(f) ==
    IF 1 <= f.font_size /\ f.font_size <= 100 THEN "ValueError"
    ELSE IF f.font_name \in {"FontName", "Path"} THEN "TypeError"
    ELSE IF f.font_style \in {"FontStyle", "list"} THEN "FontStyleError"
    ELSE IF f.colour_tuple /\ f.colour_len = 3 THEN "ColourError"
    ELSE IF f.font_spacing = "float" THEN "ValueError"
    ELSE "none"

\* Font.__post_init__
NewFont(f) == ValidateFont(CheckPath(f))

\* Arguments of LineBlock(...)
LineArgs == [height : {0, 1, 3}, width : {0 - 1, 0}, padding : {0 - 1, 0, 2}]

\* LineBlock.validate_fields
NewLineBlock(l) ==
    IF l.height > 0 THEN "LineHeightError"
    ELSE IF l.width >= 0 THEN "LineWidthError"
    ELSE IF l.padding >= 0 THEN "LinePaddingError"
    ELSE "none"

\* A postcode as typed: a string over a lower-case letter, an upper-case
\* letter, a digit and the space.
Postcodes == UNION { [1..n -> {"a", "A", "1", " "}] : n \in 0..MaxPostcode }

\* str.replace(" ", "") and str.upper()
RemoveSpaces(str) == SelectSeq(str, LAMBDA ch : ch # " ")

Upper(str) == [ i \in 1..Len(str) |-> IF str[i] = "a" THEN "A" ELSE str[i] ]

IsLetter(ch) == ch \in {"a", "A"}

IsDigit(ch) == ch = "1"

\* ^([a-zA-Z]{1,2}[0-9][a-zA-Z0-9]?)([0-9][a-zA-Z]{2})$ : the two groups of
\* the match, None when the string does not match.
MatchPostcode(str) ==
    LET n == Len(str)
        outward == SubSeq(str, 1, n - 3)
        inward == SubSeq(str, n - 2, n)
        m == Len(outward)
        inward_ok == IsDigit(inward[1]) /\ IsLetter(inward[2]) /\ IsLetter(inward[3])
        outward_ok ==
            \/ m = 2 /\ IsLetter(outward[1]) /\ IsDigit(outward[2])
            \/ m = 3 /\ IsLetter(outward[1]) /\ IsLetter(outward[2]) /\ IsDigit(outward[3])
            \/ m = 3 /\ IsLetter(outward[1]) /\ IsDigit(outward[2])
            \/ m = 4 /\ IsLetter(outward[1]) /\ IsLetter(outward[2]) /\ IsDigit(outward[3])
    IN  IF n >= 5 /\ inward_ok /\ outward_ok
        THEN Some(<<outward, inward>>) ELSE None

\* fix_postcode(input_string, re=None): `re` is the parameter, not the
\* module; with re = None, re.compile raises inside the try and the except
\* clause returns the input as it came.  Returns Some(string) or None.
FixPostcode(input_string, re) ==
    IF re = None THEN Some(input_string)
    ELSE LET match == MatchPostcode(Upper(RemoveSpaces(input_string)))
         IN  IF match # None
             THEN Some(match[1][1] \o <<" ">> \o match[1][2])
             ELSE None

\* Arguments of Address(...): the country code and the postcode; the name
\* and the address lines are given.
AddressArgs == [address_country : {"GB", "gb", "FR"}, address_postcode : Postcodes]

\* str.upper() of a country code
UpperCountry(c) == IF c = "gb" THEN "GB" ELSE c

\* Address.__post_init__: the exception raised ("none" if built) and the
\* postcode the object then holds (address_postal_code when it was
\* assigned, address_postcode otherwise).
NewAddress(a) ==
    LET valid_postcode ==
            IF UpperCountry(a.address_country) = "GB"
            THEN FixPostcode(a.address_postcode, None) ELSE Some(a.address_postcode)
    IN  IF valid_postcode = None
        THEN [err |-> "ValueError", postcode |-> a.address_postcode]
        ELSE IF Len(a.address_postcode) = 0
        THEN [err |-> "ValueError", postcode |-> valid_postcode[1]]
        ELSE [err |-> "none", postcode |-> valid_postcode[1]]

\* Constructions do not depend on one another: one is followed from the
\* initial state.
NothingBuilt == last.op = "init"

\* The caller's statement ends with exception e; c records what was built.
Built(c, e) ==
    /\ err' = e
    /\ last' = Observed(c, FALSE, "", FALSE, <<>>, <<>>)
    /\ UNCHANGED <<pc, template, l_margin, t_margin, r_margin, x, y, page,
                   wrap_on, wrap_y_end, wrap_x, wrap_dir, loaded_fonts,
                   font_name, fonts, other>>

ConstructFont ==
    /\ NothingBuilt
    /\ \E f \in FontArgs :
         Built(ArgCall("Font", "direct", FALSE, Some(f)), NewFont(f))

ConstructLineBlock ==
    /\ NothingBuilt
    /\ \E l \in LineArgs :
         Built(ArgCall("LineBlock", "direct", FALSE, Some(l)), NewLineBlock(l))

ConstructAddress ==
    /\ NothingBuilt
    /\ \E a \in AddressArgs :
         Built([ArgCall("Address", "direct", FALSE, Some(a))
                  EXCEPT !.ret = NewAddress(a).postcode],
               NewAddress(a).err)

NextBlocks ==
    \/ ConstructFont
    \/ ConstructLineBlock
    \/ ConstructAddress

SpecBlocks == Init /\ [][NextBlocks]_vars

----------------------------------------------------------------------------
(* Properties *)

Installed == InstalledMargins(template)

MarginsAreInstalled ==
    /\ l_margin = Installed.left
    /\ t_margin = Installed.top
    /\ r_margin = Installed.right

\* The canvas calls of the last call that are of one kind, in order.
EventsOf(kind) == SelectSeq(last.events, LAMBDA e : e.ev = kind)

\* The calls that place a float.
PlacedFloat == last.float

\* C1: every margin restore the engine performs (_reset_margin, alone or
\* inside a text placement) completes and leaves the canvas left, top and
\* right margins equal to the values create_pdf installed from the template.
C1_RestoreReturnsOriginal ==
    EventsOf("reset") # <<>> =>
        /\ \A i \in 1..Len(EventsOf("reset")) : EventsOf("reset")[i].ok
        /\ err = "none"
        /\ MarginsAreInstalled

\* C2: placing a wrap-enabled Left/Right float while the wrap of an earlier
\* float is active and its boundary_y not yet passed signals LayoutStateError
\* and leaves the first WrapState (boundary_y, boundary_x, direction) as it was.
C2_SecondFloatRejected ==
    [][ ( /\ wrap_on /\ wrap_y_end # None /\ y <= wrap_y_end[1]
          /\ last'.float /\ last'.wraps )
        => ( /\ err' = "LayoutStateError"
             /\ wrap_on'
             /\ wrap_y_end' = wrap_y_end
             /\ wrap_x' = wrap_x
             /\ wrap_dir' = wrap_dir ) ]_vars

C4_DrawnSegmentWasChecked ==
    (last.op = "text" /\ last.path = "wrap" /\ EventsOf("draw") # <<>>) =>
        LET d == EventsOf("draw")[1]
            m == EventsOf("measure")
        IN  d.ok => \E i \in 1..Len(m) : m[i].words = d.words /\ m[i].ok

\* C5: between two placements an active WrapState implies
\* cursor.y <= boundary_y.
C5_ActiveWrapAboveBoundary ==
    wrap_on => (wrap_y_end # None /\ y <= wrap_y_end[1])

\* Widths a float can have.
FloatWidths == { sz[1] : sz \in FloatSizes }

\* C6: once the margins are installed, the current left and right margins
\* are the original ones or the original ones changed by the width of
\* exactly one float; offsets of several floats never add up.
C6_MarginsNotStacked ==
    page >= 1 =>
        \/ (l_margin = Installed.left /\ r_margin = Installed.right)
        \/ \E w \in FloatWidths :
             \/ (l_margin = Installed.left + w /\ r_margin = Installed.right)
             \/ (l_margin = Installed.left /\ r_margin = Installed.right + w)
             \/ (l_margin = Installed.left /\ r_margin = Installed.right - w)

\* C6 witness: a wrap-enabled float was placed while the wrap of an earlier
\* wrap-enabled float was still on.
C6_Witness ==
    /\ last.op = "sort_wrap" /\ last.wraps /\ last.wrap_before
    /\ wrap_on /\ page >= 1

C8_ExceedOrder ==
    (last.op = "text" /\ last.path = "wrap" /\ last.hit) =>
        LET ev == SelectSeq(last.events, LAMBDA e : e.ev # "measure")
        IN  /\ Len(ev) = 3
            /\ ev[1].ev = "draw" /\ ev[2].ev = "reset" /\ ev[2].ok
            /\ ev[3].ev = "draw"
            /\ ev[3].width = PageW - Installed.right - Installed.left
            /\ ~wrap_on
            /\ MarginsAreInstalled

\* Concatenation of the words of a sequence of draw events.
RECURSIVE DrawnWords(_)
DrawnWords(evs) ==
    IF evs = <<>> THEN <<>> ELSE Head(evs).words \o DrawnWords(Tail(evs))

\* C9: for a Text block placed by the wrap path, the words of the fitted
\* segment followed by the words of the remainder are exactly the block's
\* words in order: nothing dropped, nothing drawn twice.
C9_WordsPartition ==
    (last.op = "text" /\ last.path = "wrap" /\ EventsOf("measure") # <<>>) =>
        DrawnWords(EventsOf("draw")) = last.words

\* C10: dispatching an Image block with wrap_text = true and alignment Left
\* or Right at cursor y draws the image and creates a WrapState with
\* boundary_y = y + height and boundary_x = cursor.x + width.
C10_ImageBeginsWrap ==
    [][ (last'.op = "image" /\ last'.via = "dispatch" /\ last'.wraps)
        => ( /\ EventsOf("image")' # <<>>
             /\ wrap_on'
             /\ wrap_y_end' = Some(y + last'.size[2])
             /\ wrap_x' = Some(x + last'.size[1]) ) ]_vars

C12_ColumnWidths ==
    (last.op = "table" /\ last.arg[1][1] # None /\ ~last.arg[1][3]) =>
        LET cw == last.arg[1][1][1]
            ncols == last.arg[1][2]
        IN  /\ (SumOf(cw) = 10 /\ Len(cw) = ncols)
                  => (err = "none" /\ EventsOf("table") # <<>>)
            /\ SumOf(cw) # 10
                  => (err = "ColumnWidthError" /\ EventsOf("table") = <<>>)

\* C13: placing a Line block with height h >= 1 and padding p >= 0 moves
\* the cursor's y from y0 to y0 + p + h + p.
C13_LineAdvance ==
    [][ ( /\ last'.op = "line"
          /\ last'.arg[1][1] >= 1 /\ last'.arg[1][2] >= 0 )
        => y' = y + last'.arg[1][2] + last'.arg[1][1] + last'.arg[1][2] ]_vars

\* C14: when the dispatcher meets a block whose variant has no placement
\* routine it signals UnreachableVariant (and create_pdf ends there)
\* instead of skipping the block.
C14_UnknownVariantIsFatal ==
    [][ (last'.via = "dispatch" /\ last'.op \in {"other", "box"})
        => (err' = "UnreachableVariant" /\ pc' = "aborted") ]_vars

\* C15: two PDF instances do not interfere: a step of the second instance
\* changes nothing the first one reads (the loaded-font list), and no font
\* selection of either instance fails, as none does when it runs alone.
C15_InstancesIndependent ==
    /\ [][ other' # other => loaded_fonts' = loaded_fonts ]_vars
    /\ [](other.err = "none" /\ last.path # "font")

\* C16: rendering never changes a field of a block or Font descriptor it
\* is given: the font_name of the caller's Font object keeps its value.
C16_FontNotMutated ==
    [][ font_name' = font_name ]_vars

\* C17: a float or text placement that fails leaves no partially-applied
\* WrapState behind: it has not switched the wrap flag on without narrowing
\* the margins, nor written the boundary fields with the wrap flag off.
C17_NoPartialWrapOnFailure ==
    [][ ( (last'.float \/ last'.op = "text") /\ err' # "none" )
        => ( /\ ~( /\ wrap_on' /\ ~wrap_on
                   /\ l_margin' = l_margin /\ r_margin' = r_margin )
             /\ ~( /\ ~wrap_on'
                   /\ wrap_y_end' # None /\ wrap_y_end' # wrap_y_end ) ) ]_vars

\* C18: within the page the cursor's y never decreases, at no step inside
\* a placement (last.ys lists the values y took during the last call).
C18_YMonotone ==
    \A i \in 1..(Len(last.ys) - 1) : last.ys[i] <= last.ys[i + 1]

\* C19: dispatching a Box block issues exactly one rectangle draw and
\* leaves the flow cursor, the margins and the WrapState unchanged.
C19_BoxDrawsOneRect ==
    [][ (last'.op = "box" /\ last'.via = "dispatch")
        => ( /\ Len(EventsOf("rect")') = 1
             /\ x' = x /\ y' = y
             /\ l_margin' = l_margin /\ r_margin' = r_margin
             /\ t_margin' = t_margin
             /\ wrap_on' = wrap_on /\ wrap_y_end' = wrap_y_end
             /\ wrap_x' = wrap_x /\ wrap_dir' = wrap_dir ) ]_vars

\* C20: create_pdf returns the PDF as bytes when output is a bytearray and
\* returns None, after saving, when output is a str.
C20_OutputReturn ==
    last.op = "output" =>
        /\ err = "none"
        /\ last.ret = (IF last.arg = Some("str") THEN "None" ELSE "bytes")

\* C21: in the wrap path runs of consecutive spaces collapse: the word
\* list holds no empty word, so no string that is measured or drawn has
\* two adjacent spaces.
C21_SpacesCollapse ==
    (last.op = "text" /\ last.path = "wrap") =>
        \A i \in 1..Len(last.events) :
            \A j \in 1..Len(last.events[i].words) : last.events[i].words[j] # 0

\* The conditions the Font docstring states for a valid Font.
ValidFontArgs(f) ==
    /\ 1 <= f.font_size /\ f.font_size <= 100
    /\ f.font_name \in {"FontName", "Path"}
    /\ f.font_style \in {"FontStyle", "list"}
    /\ f.colour_tuple /\ f.colour_len = 3

\* C22: constructing a Font raises nothing when font_size is in 1..100,
\* font_name is a FontName or Path, font_style a FontStyle or list and
\* font_colour a tuple of length 3 (so for Font()), and raises only when one
\* of these is violated.
C22_FontValidation ==
    last.op = "Font" =>
        /\ ValidFontArgs(last.arg[1]) => err = "none"
        /\ err # "none" => ~ValidFontArgs(last.arg[1])

\* C23: constructing a LineBlock raises exactly when height <= 0,
\* width < 0 or padding < 0.
C23_LineValidation ==
    last.op = "LineBlock" =>
        ( err # "none"
          <=> ( \/ last.arg[1].height <= 0
                \/ last.arg[1].width < 0
                \/ last.arg[1].padding < 0 ) )

\* C24: an Address with country GB and an invalid UK postcode raises
\* ValueError; a valid one, with or without spaces and in any case, is
\* accepted and held in upper case with one space before the last three
\* characters.
C24_PostcodeValidation ==
    (last.op = "Address" /\ UpperCountry(last.arg[1].address_country) = "GB") =>
        LET match == MatchPostcode(Upper(RemoveSpaces(last.arg[1].address_postcode)))
        IN  IF match = None THEN err = "ValueError"
            ELSE /\ err = "none"
                 /\ last.ret = match[1][1] \o <<" ">> \o match[1][2]

\* C25: create_pdf installs the template's margins component by component:
\* canvas left = template left, top = template top, right = template right,
\* page-break margin = template bottom.
C25_MarginsByComponent ==
    last.op = "create_pdf" =>
        /\ err = "none"
        /\ l_margin = template.left
        /\ t_margin = template.top
        /\ r_margin = template.right
        /\ Installed.bottom = template.bottom

\* C26: while a WrapState is active the usable width is the original one
\* less the float's width (a Left float raised the left margin, a Right
\* float the right margin, by the float's width) and the top margin is the
\* original one.
C26_ActiveWrapNarrows ==
    wrap_on =>
        /\ t_margin = Installed.top
        /\ \E w \in FloatWidths :
             \/ (l_margin = Installed.left + w /\ r_margin = Installed.right)
             \/ (l_margin = Installed.left /\ r_margin = Installed.right + w)

\* C27: a Text block that create_pdf dispatches is placed for real: dry is
\* false, there is a visible draw call and the cursor moves down.
C27_DispatchIsNotDry ==
    [][ (last'.op = "text" /\ last'.via = "dispatch" /\ err' = "none")
        => ( /\ ~last'.dry
             /\ \E i \in 1..Len(EventsOf("draw")') : EventsOf("draw")'[i].ok
             /\ y' > y ) ]_vars

\* C28: a Text block with ignore_wrap placed while a WrapState is active is
\* drawn whole in one draw call with no dry-run measurement, and WrapState
\* and margins stay as they were.
C28_IgnoreWrapKeepsWrap ==
    [][ (last'.op = "text" /\ last'.ignore_wrap /\ wrap_on /\ last'.path # "font")
        => ( /\ Len(EventsOf("draw")') = 1
             /\ EventsOf("draw")'[1].words = last'.words
             /\ EventsOf("measure")' = <<>>
             /\ wrap_on'
             /\ wrap_y_end' = wrap_y_end /\ wrap_x' = wrap_x
             /\ wrap_dir' = wrap_dir
             /\ l_margin' = l_margin /\ r_margin' = r_margin
             /\ t_margin' = t_margin ) ]_vars

\* C29: placing a float that does not wrap while the WrapState of an
\* earlier float is active leaves boundary_y, boundary_x, direction and the
\* margins as the earlier float set them.
C29_NonWrappingFloatKeepsWrap ==
    [][ (wrap_on /\ last'.float /\ ~last'.wraps)
        => ( /\ wrap_on'
             /\ wrap_y_end' = wrap_y_end /\ wrap_x' = wrap_x
             /\ wrap_dir' = wrap_dir
             /\ l_margin' = l_margin /\ r_margin' = r_margin
             /\ t_margin' = t_margin ) ]_vars

\* C30: on one instance a font file is loaded at most once, and every
\* selection of a Font object naming that file resolves to the file's stem
\* (no selection hands the canvas anything else and fails).
C30_FontLoadedOnce ==
    /\ \A i, j \in 1..Len(loaded_fonts) :
          loaded_fonts[i] = loaded_fonts[j] => i = j
    /\ last.path # "font"

====
